---------------------------- MODULE Spec2Model ----------------------------
(***************************************************************************)
(* Model of the Godot LSP stdio <-> TCP bridge.                            *)
(*                                                                         *)
(* The repository holds two variants of the bridge.  The full one          *)
(* (reconnect, warm-up, URI normalisation, shutdown) is the program text   *)
(* of src/README.md, lines 246-792; src/index.mjs is the earlier variant   *)
(* without the reconnect machinery.  This model follows the full variant   *)
(* and every line number below refers to src/README.md unless it says      *)
(* otherwise.                                                              *)
(*                                                                         *)
(* The bridge is single threaded: every handler (stdin data, socket        *)
(* connect / error / timeout / close / data, the three timers, cleanup)    *)
(* runs to completion, so each handler is one action.  A handler that       *)
(* rejects or resolves the connect promise is modelled together with the   *)
(* continuation of the async function awaiting it (the continuation runs   *)
(* as a microtask before any other event).                                 *)
(***************************************************************************)
EXTENDS Integers, Sequences, FiniteSets, TLC

(***************************************************************************)
(* Bounds of the model (not program constants).                            *)
(***************************************************************************)
MaxEvents == 5     \* events the environment causes in one run: frames on stdin,
                   \* frames from the peer, failed connection attempts and
                   \* failures or closes of an established connection

(***************************************************************************)
(* Program constants.                                                      *)
(***************************************************************************)
MAX_RECONNECT_ATTEMPTS == -1
GODOT_LSP_PORT == 6005          \* process.env.GODOT_LSP_PORT is not set
MAX_INITIAL_RETRIES == 5

(***************************************************************************)
(* Payloads.  A decoded payload (a JavaScript string) is described by what *)
(* the bridge reads from it:                                               *)
(*   json    whether JSON.parse accepts it                                 *)
(*   id      the value of msg.id        (Undefined when absent)            *)
(*   method  the value of msg.method    ("" when absent)                   *)
(*   result  whether msg.result is present                                 *)
(*   uri     the one string value of the message that may be a file URI,   *)
(*           as a sequence of tokens (<<>> when absent)                    *)
(*   ws      bytes of insignificant whitespace (dropped by JSON.stringify) *)
(*   wide    number of two-byte UTF-8 characters in the text               *)
(*   bad     number of U+FFFD characters that toString('utf8') produced    *)
(*           from one invalid byte each (1 byte on the wire, 3 re-encoded) *)
(***************************************************************************)
Undefined == 0
Null == -1

Msg(json, id, method, result, uri, ws, wide, bad) ==
    [json |-> json, id |-> id, method |-> method, result |-> result,
     uri |-> uri, ws |-> ws, wide |-> wide, bad |-> bad]

TokenBytes(t) == IF t = "file://" THEN 7 ELSE IF t = "C:" THEN 2 ELSE 1

RECURSIVE UriBytes(_)
UriBytes(u) == IF u = <<>> THEN 0 ELSE TokenBytes(Head(u)) + UriBytes(Tail(u))

\* Number of UTF-16 code units of the string (String.prototype.length).
CharLength(c) ==
    (IF c.json THEN 10 ELSE 4) + (IF c.method = "" THEN 0 ELSE 3)
      + UriBytes(c.uri) + c.ws + c.wide + c.bad

\* Buffer.byteLength(content, 'utf8')
ByteLength(c) == CharLength(c) + c.wide + 2 * c.bad

\* The number of body bytes the frame had on the wire: the contentLength that
\* extractMessages hands to its callback.
WireLength(c) == ByteLength(c) - 2 * c.bad


(***************************************************************************)
(* URI normalisation.  A URI is a sequence of tokens; "file://" is one     *)
(* token, so startsWith('file://') is a test of the first token and        *)
(* slice(7) is Tail.                                                       *)
(***************************************************************************)
StartsWithFile(u) == u # <<>> /\ Head(u) = "file://"

\* path.replace(/\\/g, '/')
ReplaceBackslashes(path) ==
    [i \in 1..Len(path) |-> IF path[i] = "\\" THEN "/" ELSE path[i]]

\* Mutant of normalizeFileUri: the leading slash is added without looking at
\* the first character of the path.
normalizeFileUriAlwaysSlash(uri) ==
    IF ~StartsWithFile(uri)
    THEN uri
    ELSE <<"file://", "/">> \o ReplaceBackslashes(Tail(uri))

normalizeFileUri(uri) ==
    IF ~StartsWithFile(uri)
    THEN uri
    ELSE LET path == ReplaceBackslashes(Tail(uri))
         IN  <<"file://">> \o
               (IF Len(path) > 0 /\ path[1] # "/" THEN <<"/">> \o path ELSE path)

\* Every string of the parsed message goes through normalizeFileUri when it
\* starts with file://; the method name never does.
normalizeUrisInObject(msg) ==
    [msg EXCEPT !.uri = IF StartsWithFile(@) THEN normalizeFileUri(@) ELSE @]

\* JSON.stringify of a parsed message: the canonical text, without the
\* insignificant whitespace of the original.
Stringify(msg) == [msg EXCEPT !.ws = 0]

(***************************************************************************)
(* The payloads the environment may deliver.                               *)
(***************************************************************************)
WinUri == <<"file://", "C:", "\\", "a">>

InitReq == Msg(TRUE, 1, "initialize", FALSE, WinUri, 0, 1, 0)
HoverReq == Msg(TRUE, 2, "hover", FALSE, <<>>, 1, 1, 0)
StdinMsgs == {InitReq, HoverReq}

InitResp == Msg(TRUE, 1, "", TRUE, <<>>, 0, 0, 1)
NotifA == Msg(TRUE, Undefined, "diag", FALSE, WinUri, 1, 1, 0)
NotifB == Msg(TRUE, Undefined, "log", FALSE, <<>>, 0, 0, 1)
PeerMsgs == {InitResp, NotifA, NotifB}

RestartNotice == Msg(TRUE, Undefined, "window/showMessage", FALSE, <<>>, 0, 0, 0)

(***************************************************************************)
(* State.                                                                  *)
(***************************************************************************)
VARIABLES
    sock,                  \* tcpSocket: "null", "connecting", "open", "destroyed"
    closePending,          \* the socket was destroyed and its 'close' event is due
    tcpConnected,
    pendingMessages,       \* the staging queue
    waitingForInitialize,
    initializeRequestId,
    bufferedNotifications,
    isReconnecting,
    isWarmingUp,
    reconnectTimer,        \* "null", "pending" (armed), "spent" (fired or cleared)
    reconnectAttempts,
    wasInitialized,
    shouldKeepRunning,
    exited,                \* process.exit was called
    warmupTimer,           \* the warm-up setTimeout is pending
    retryI,                \* loop index of connectWithInitialRetry
    retryPhase,            \* "attempt", "delay", "done"
    stdout,                \* every frame written to process.stdout
    tcpOut,                \* every frame handed to tcpSocket.write
    nStdin,                \* frames decoded from stdin so far
    nEvents,               \* environment events so far
    connId,                \* successful connections so far
    \* History (read by the properties only, never by the bridge):
    hs,                    \* the handshake being tracked on this connection:
                           \*   on   tracking was switched on since the last reset
                           \*   id   the id of the initialize request then sent
                           \*   mark Len(stdout) at that moment
                           \*   wire the payloads received from the peer since
    everHandshake,         \* the response to an initialize request written to the
                           \* peer has been relayed to stdout
    owed                   \* successful reconnects made after such a handshake

\* The byte level of stdin, used by the codec specification only (the bridge
\* specification delivers stdin one decoded frame at a time).
VARIABLES
    stdinBytes,            \* every byte the client writes to stdin in this run
    stdinFed,              \* how many of them the 'data' events have delivered
    stdinBuffer,           \* the bytes kept between 'data' events
    byteAtATime            \* history: every chunk so far was a single byte

VARIABLE
    attemptPorts           \* history: the ports of the connection attempts made
                           \* since the last established connection

\* The URI normalisation on its own, used by the URI specification only.
VARIABLES
    uriInput,              \* a string value of a payload
    uriResults             \* what normalising it once, twice, ... returned

vars == <<sock, closePending, tcpConnected, pendingMessages, waitingForInitialize,
          initializeRequestId, bufferedNotifications, isReconnecting, isWarmingUp,
          reconnectTimer, reconnectAttempts, wasInitialized, shouldKeepRunning,
          exited, warmupTimer, retryI, retryPhase, stdout, tcpOut,
          nStdin, nEvents, connId, hs, everHandshake, owed,
          stdinBytes, stdinFed, stdinBuffer, byteAtATime, attemptPorts,
          uriInput, uriResults>>

NoHandshake == [on |-> FALSE, id |-> Null, mark |-> 0, wire |-> <<>>]

handshakeVars == <<waitingForInitialize, initializeRequestId, bufferedNotifications,
                   wasInitialized>>
timerVars == <<reconnectTimer, reconnectAttempts, isReconnecting>>
retryVars == <<retryI, retryPhase>>
countVars == <<nStdin, nEvents>>
codecVars == <<stdinBytes, stdinFed, stdinBuffer, byteAtATime>>
uriVars == <<uriInput, uriResults>>

\* main() has run up to its first await: the stdin reader is set up and the
\* first connectToGodot() of connectWithInitialRetry is in flight.
BridgeInit ==
    /\ sock = "connecting"
    /\ closePending = FALSE
    /\ tcpConnected = FALSE
    /\ pendingMessages = <<>>
    /\ waitingForInitialize = FALSE
    /\ initializeRequestId = Null
    /\ bufferedNotifications = <<>>
    /\ isReconnecting = FALSE
    /\ isWarmingUp = FALSE
    /\ reconnectTimer = "null"
    /\ reconnectAttempts = 0
    /\ wasInitialized = FALSE
    /\ shouldKeepRunning = TRUE
    /\ exited = FALSE
    /\ warmupTimer = FALSE
    /\ retryI = 0
    /\ retryPhase = "attempt"
    /\ stdout = <<>>
    /\ tcpOut = <<>>
    /\ nStdin = 0
    /\ nEvents = 0
    /\ connId = 0
    /\ hs = NoHandshake
    /\ everHandshake = FALSE
    /\ owed = 0
    /\ attemptPorts = <<GODOT_LSP_PORT>>

Init ==
    /\ BridgeInit
    /\ stdinBytes = <<>>
    /\ stdinFed = 0
    /\ stdinBuffer = <<>>
    /\ byteAtATime = TRUE
    /\ uriInput = <<>>
    /\ uriResults = <<>>


(***************************************************************************)
(* Frames and the three places that write them.                            *)
(***************************************************************************)
\* Mutant of StdoutFrame: the header repeats the length the incoming frame
\* declared instead of measuring the text that is written.
StdoutFrameDeclaredLength(content, contentLength) ==
    [len |-> contentLength, content |-> content]

\* writeToStdout(content, contentLength): what reaches process.stdout.
StdoutFrame(content, contentLength) ==
    [len |-> ByteLength(content), content |-> content]

writeToStdout(out, content, contentLength) ==
    Append(out, StdoutFrame(content, contentLength))

\* tcpSocket.write(`Content-Length: ${byteLength}\r\n\r\n${content}`), with the
\* stdin arrival number of the payload, the connection it is written on,
\* whether that socket was still open, and whether the write was the direct
\* one of sendToGodot or one of a queue flush.
SocketFrame(content, contentLength, seq, conn, live, via) ==
    [len |-> ByteLength(content), content |-> content,
     seq |-> seq, conn |-> conn, live |-> live, via |-> via]

\* Mutant of FlushFrames: the queue is emptied from its end (pop instead of
\* iteration from the front).
FlushFramesFromEnd(queue, conn, live) ==
    [i \in 1..Len(queue) |->
        [len |-> ByteLength(queue[Len(queue) + 1 - i].content),
         content |-> queue[Len(queue) + 1 - i].content,
         seq |-> queue[Len(queue) + 1 - i].seq,
         conn |-> conn, live |-> live, via |-> "flush"]]

\* for (const msg of pendingMessages) tcpSocket.write(...)
FlushFrames(queue, conn, live) ==
    [i \in 1..Len(queue) |->
        SocketFrame(queue[i].content, queue[i].contentLength, queue[i].seq,
                    conn, live, "flush")]

IsInitializeRequest(msg) ==
    msg.json /\ msg.method = "initialize" /\ msg.id # Undefined

\* The text sendToGodot forwards: JSON.stringify(normalizeUrisInObject(msg)),
\* or the content itself when JSON.parse throws.
NormalizedContent(content) ==
    IF content.json THEN Stringify(normalizeUrisInObject(content)) ELSE content

\* msg.id === initializeRequestId && msg.result !== undefined
IsAwaitedResponse(msg) ==
    msg.json /\ msg.id = initializeRequestId /\ msg.result

\* Mutant of IsHeldNotification: the id test is inverted, so requests are held
\* and notifications pass.
IsHeldNotificationInverted(msg) ==
    msg.json /\ msg.method # "" /\ msg.id # Undefined

\* Mutant of IsHeldNotification: the id is not looked at, so a request of the
\* server (method and id) is held as well.
IsHeldNotificationAnyMethod(msg) ==
    msg.json /\ msg.method # ""

\* msg.method !== undefined && msg.id === undefined
IsHeldNotification(msg) ==
    msg.json /\ msg.method # "" /\ msg.id = Undefined

\* Mutant of MustQueue: the warm-up is not looked at.
MustQueueIgnoresWarmup == ~tcpConnected

\* The stdin callback's test: !tcpConnected || isWarmingUp
MustQueue == ~tcpConnected \/ isWarmingUp

(***************************************************************************)
(* sendToGodot(content, contentLength)                                     *)
(***************************************************************************)
sendToGodot(content, contentLength, seq) ==
    /\ IF IsInitializeRequest(content)
       THEN /\ waitingForInitialize' = TRUE
            /\ initializeRequestId' = content.id
            /\ wasInitialized' = FALSE
       ELSE UNCHANGED <<waitingForInitialize, initializeRequestId, wasInitialized>>
    /\ IF tcpConnected /\ sock \notin {"null", "destroyed"}
       THEN /\ tcpOut' = Append(tcpOut,
                   SocketFrame(NormalizedContent(content), contentLength, seq,
                               connId, sock = "open", "direct"))
            /\ UNCHANGED pendingMessages
       ELSE /\ pendingMessages' = Append(pendingMessages,
                   [content |-> NormalizedContent(content),
                    contentLength |-> ByteLength(NormalizedContent(content)),
                    seq |-> seq])
            /\ UNCHANGED tcpOut
    /\ hs' = (IF IsInitializeRequest(content) /\ ~waitingForInitialize
              THEN [on |-> TRUE, id |-> content.id, mark |-> Len(stdout),
                    wire |-> <<>>]
              ELSE hs)
    /\ UNCHANGED bufferedNotifications

(***************************************************************************)
(* process.stdin.on('data'): one decoded frame handed to the callback.     *)
(***************************************************************************)
StdinData ==
    /\ ~exited
    /\ nEvents < MaxEvents
    /\ \E content \in StdinMsgs :
         IF MustQueue
         THEN /\ pendingMessages' = Append(pendingMessages,
                     [content |-> content, contentLength |-> WireLength(content),
                      seq |-> nStdin + 1])
              /\ UNCHANGED <<tcpOut, handshakeVars, hs>>
         ELSE sendToGodot(content, WireLength(content), nStdin + 1)
    /\ nStdin' = nStdin + 1
    /\ nEvents' = nEvents + 1
    /\ UNCHANGED <<sock, closePending, tcpConnected, timerVars, isWarmingUp,
                   shouldKeepRunning, exited, warmupTimer, retryVars, stdout,
                   connId, everHandshake, owed, codecVars,
                   attemptPorts, uriVars>>

\* Mutant of handleGodotMessage: the branch that holds notifications is
\* missing, so everything but the awaited response is relayed at once.
handleGodotMessageNoHold(content, contentLength) ==
    IF waitingForInitialize /\ IsAwaitedResponse(content)
    THEN /\ stdout' = writeToStdout(stdout, content, contentLength) \o
                        [i \in 1..Len(bufferedNotifications) |->
                            StdoutFrame(bufferedNotifications[i].content,
                                        bufferedNotifications[i].contentLength)]
         /\ waitingForInitialize' = FALSE
         /\ wasInitialized' = TRUE
         /\ bufferedNotifications' = <<>>
         /\ UNCHANGED initializeRequestId
    ELSE /\ stdout' = writeToStdout(stdout, content, contentLength)
         /\ UNCHANGED handshakeVars

(***************************************************************************)
(* handleGodotMessage(content, contentLength)                              *)
(***************************************************************************)
handleGodotMessage(content, contentLength) ==
    IF waitingForInitialize /\ IsAwaitedResponse(content)
    THEN /\ stdout' = writeToStdout(stdout, content, contentLength) \o
                        [i \in 1..Len(bufferedNotifications) |->
                            StdoutFrame(bufferedNotifications[i].content,
                                        bufferedNotifications[i].contentLength)]
         /\ waitingForInitialize' = FALSE
         /\ wasInitialized' = TRUE
         /\ bufferedNotifications' = <<>>
         /\ UNCHANGED initializeRequestId
    ELSE IF waitingForInitialize /\ IsHeldNotification(content)
    THEN /\ bufferedNotifications' = Append(bufferedNotifications,
                [content |-> content, contentLength |-> contentLength])
         /\ UNCHANGED <<stdout, waitingForInitialize, wasInitialized,
                        initializeRequestId>>
    ELSE /\ stdout' = writeToStdout(stdout, content, contentLength)
         /\ UNCHANGED handshakeVars

\* History: the payload is the response to an initialize request that was
\* written to the peer on this connection.
AnswersInitialize(content) ==
    /\ content.json /\ content.result
    /\ \E i \in 1..Len(tcpOut) :
          /\ tcpOut[i].conn = connId /\ tcpOut[i].live
          /\ IsInitializeRequest(tcpOut[i].content)
          /\ tcpOut[i].content.id = content.id

\* tcpSocket.on('data'): one decoded frame handed to handleGodotMessage.
TcpData ==
    /\ ~exited
    /\ sock = "open"
    /\ nEvents < MaxEvents
    /\ \E content \in PeerMsgs :
         /\ handleGodotMessage(content, WireLength(content))
         /\ hs' = (IF hs.on THEN [hs EXCEPT !.wire = Append(@, content)] ELSE hs)
         /\ everHandshake' = (everHandshake \/ AnswersInitialize(content))
    /\ nEvents' = nEvents + 1
    /\ UNCHANGED <<sock, closePending, tcpConnected, pendingMessages, timerVars,
                   isWarmingUp, shouldKeepRunning, exited, warmupTimer, retryVars,
                   tcpOut, nStdin, connId, owed, codecVars,
                   attemptPorts, uriVars>>


\* Mutant of scheduleReconnect: a retry cap of zero, so the first call gives up
\* (process.exit(1)) instead of arming the timer.
scheduleReconnectCapped ==
    /\ exited' = (exited \/ shouldKeepRunning)
    /\ reconnectTimer' = (IF reconnectTimer = "pending" THEN "spent"
                          ELSE reconnectTimer)
    /\ UNCHANGED <<reconnectAttempts, isReconnecting>>

(***************************************************************************)
(* scheduleReconnect()                                                     *)
(***************************************************************************)
scheduleReconnect ==
    IF ~shouldKeepRunning
    THEN \* the pending timer, if any, was cleared before the early return
         /\ reconnectTimer' = (IF reconnectTimer = "pending" THEN "spent"
                               ELSE reconnectTimer)
         /\ UNCHANGED <<reconnectAttempts, isReconnecting, exited>>
    ELSE IF MAX_RECONNECT_ATTEMPTS >= 0 /\ reconnectAttempts >= MAX_RECONNECT_ATTEMPTS
    THEN \* process.exit(1)
         /\ exited' = TRUE
         /\ reconnectTimer' = (IF reconnectTimer = "pending" THEN "spent"
                               ELSE reconnectTimer)
         /\ UNCHANGED <<reconnectAttempts, isReconnecting>>
    ELSE /\ reconnectAttempts' = reconnectAttempts + 1
         /\ isReconnecting' = TRUE
         /\ reconnectTimer' = "pending"
         /\ UNCHANGED exited

(***************************************************************************)
(* connectToGodot(): the connect callback.  resolve() lets                 *)
(* connectWithInitialRetry return when it is the one awaiting.             *)
(***************************************************************************)
ConnectSuccess ==
    /\ ~exited
    /\ sock = "connecting"
    /\ sock' = "open"
    /\ tcpConnected' = TRUE
    /\ reconnectAttempts' = 0
    /\ connId' = connId + 1
    /\ IF isReconnecting
       THEN /\ pendingMessages' = <<>>
            /\ isReconnecting' = FALSE
            /\ isWarmingUp' = TRUE
            /\ warmupTimer' = TRUE
            /\ stdout' = (IF wasInitialized
                          THEN writeToStdout(stdout, RestartNotice,
                                             ByteLength(RestartNotice))
                          ELSE stdout)
            /\ UNCHANGED tcpOut
       ELSE /\ tcpOut' = tcpOut \o FlushFrames(pendingMessages, connId + 1, TRUE)
            /\ pendingMessages' = <<>>
            /\ UNCHANGED <<isReconnecting, isWarmingUp, warmupTimer, stdout>>
    /\ retryPhase' = "done"
    /\ owed' = (IF connId >= 1 /\ everHandshake THEN owed + 1 ELSE owed)
    /\ attemptPorts' = <<>>
    /\ UNCHANGED <<closePending, handshakeVars, reconnectTimer, shouldKeepRunning,
                   exited, retryI, countVars, hs, everHandshake, codecVars,
                   uriVars>>

(***************************************************************************)
(* A connection attempt that fails.  The 'error' handler (or the           *)
(* 'timeout' handler, after tcpSocket.destroy()) rejects the promise; the  *)
(* awaiting function's catch block runs next: connectWithInitialRetry      *)
(* either waits INITIAL_RETRY_DELAY or, after the last retry, calls        *)
(* scheduleReconnect(); the reconnect timer's callback calls               *)
(* scheduleReconnect().  The socket's 'close' event is still to come.      *)
(***************************************************************************)
RejectAttempt ==
    /\ ~exited
    /\ sock = "connecting"
    /\ nEvents < MaxEvents
    /\ nEvents' = nEvents + 1
    /\ sock' = "destroyed"
    /\ closePending' = TRUE
    /\ IF retryPhase = "attempt" /\ retryI < MAX_INITIAL_RETRIES - 1
       THEN /\ retryPhase' = "delay"
            /\ UNCHANGED <<timerVars, exited>>
       ELSE /\ retryPhase' = "done"
            /\ scheduleReconnect
    /\ UNCHANGED <<tcpConnected, pendingMessages, handshakeVars, isWarmingUp,
                   shouldKeepRunning, warmupTimer, retryI, stdout, tcpOut,
                   nStdin, connId, hs, everHandshake, owed, codecVars,
                   attemptPorts, uriVars>>

\* tcpSocket.on('error') while connecting
ConnectError == RejectAttempt

\* tcpSocket.on('timeout')
ConnectTimeout == RejectAttempt

\* tcpSocket.on('error') on an established connection: reject() of the settled
\* promise does nothing; the socket is destroyed and its 'close' event follows.
TransportError ==
    /\ ~exited
    /\ sock = "open"
    /\ nEvents < MaxEvents
    /\ nEvents' = nEvents + 1
    /\ sock' = "destroyed"
    /\ closePending' = TRUE
    /\ UNCHANGED <<tcpConnected, pendingMessages, handshakeVars, timerVars,
                   isWarmingUp, shouldKeepRunning, exited, warmupTimer, retryVars,
                   stdout, tcpOut, nStdin, connId, hs, everHandshake, owed, codecVars,
                   attemptPorts, uriVars>>

\* tcpSocket.on('close'): after a failed attempt, after a transport error, or
\* when the peer closes an established connection.
OnClose ==
    /\ ~exited
    /\ IF closePending THEN TRUE ELSE sock = "open" /\ nEvents < MaxEvents
    /\ nEvents' = (IF closePending THEN nEvents ELSE nEvents + 1)
    /\ sock' = "destroyed"
    /\ closePending' = FALSE
    /\ tcpConnected' = FALSE
    /\ IF ~shouldKeepRunning
       THEN UNCHANGED <<timerVars, exited>>
       ELSE scheduleReconnect
    /\ UNCHANGED <<pendingMessages, handshakeVars, isWarmingUp, shouldKeepRunning,
                   warmupTimer, retryVars, stdout, tcpOut, nStdin, connId, hs,
                   everHandshake, owed, codecVars,
                   attemptPorts, uriVars>>

(***************************************************************************)
(* Timers.  A destroyed socket's 'close' event is emitted in the same      *)
(* event-loop iteration, before any timer can run.  The timers themselves  *)
(* fire in the order of their deadlines: INITIAL_RETRY_DELAY (100 ms) and  *)
(* WARMUP_DELAY (1000 ms) are armed before and are shorter than a          *)
(* RECONNECT_DELAY (5000 ms) that is pending at the same time, and a       *)
(* connection attempt settles within CONNECTION_TIMEOUT (2000 ms).         *)
(***************************************************************************)
\* connectWithInitialRetry: the INITIAL_RETRY_DELAY elapsed; next iteration.
InitialRetry ==
    /\ ~exited
    /\ retryPhase = "delay"
    /\ ~closePending
    /\ retryI' = retryI + 1
    /\ retryPhase' = "attempt"
    /\ sock' = "connecting"
    /\ attemptPorts' = Append(attemptPorts, GODOT_LSP_PORT)
    /\ UNCHANGED <<closePending, tcpConnected, pendingMessages, handshakeVars,
                   timerVars, isWarmingUp, shouldKeepRunning, exited, warmupTimer,
                   stdout, tcpOut, countVars, connId, hs, everHandshake, owed,
                   codecVars, uriVars>>

\* The reconnect timer's callback: resetConnectionState(), connectToGodot().
ReconnectTimerFires ==
    /\ ~exited
    /\ reconnectTimer = "pending"
    /\ retryPhase = "done"
    /\ ~warmupTimer
    /\ ~closePending
    /\ reconnectTimer' = "spent"
    /\ IF ~shouldKeepRunning
       THEN UNCHANGED <<sock, tcpConnected, waitingForInitialize,
                        initializeRequestId, bufferedNotifications, hs,
                        attemptPorts>>
       ELSE /\ hs' = NoHandshake
            /\ attemptPorts' = Append(attemptPorts, GODOT_LSP_PORT)
            /\ tcpConnected' = FALSE
            /\ waitingForInitialize' = FALSE
            /\ initializeRequestId' = Null
            /\ bufferedNotifications' = <<>>
            /\ sock' = "connecting"
    /\ UNCHANGED <<closePending, pendingMessages, wasInitialized, reconnectAttempts,
                   isReconnecting, isWarmingUp, shouldKeepRunning, exited,
                   warmupTimer, retryVars, stdout, tcpOut, countVars, connId,
                   everHandshake, owed, codecVars, uriVars>>

\* The warm-up timer's callback.
WarmupElapsed ==
    /\ ~exited
    /\ warmupTimer
    /\ ~closePending
    /\ warmupTimer' = FALSE
    /\ isWarmingUp' = FALSE
    /\ tcpOut' = tcpOut \o FlushFrames(pendingMessages, connId, sock = "open")
    /\ pendingMessages' = <<>>
    /\ UNCHANGED <<sock, closePending, tcpConnected, handshakeVars, timerVars,
                   shouldKeepRunning, exited, retryVars, stdout, countVars, connId,
                   hs, everHandshake, owed, codecVars,
                   attemptPorts, uriVars>>

\* Mutant of cleanup: the staging queue is written out before the socket is
\* destroyed.
cleanupDrains ==
    IF ~shouldKeepRunning
    THEN UNCHANGED vars
    ELSE /\ shouldKeepRunning' = FALSE
         /\ reconnectTimer' = "null"
         /\ tcpOut' = tcpOut \o [i \in 1..Len(pendingMessages) |->
                [len |-> ByteLength(pendingMessages[i].content),
                 content |-> pendingMessages[i].content,
                 seq |-> pendingMessages[i].seq,
                 conn |-> connId, live |-> sock = "open", via |-> "flush"]]
         /\ pendingMessages' = <<>>
         /\ sock' = "null"
         /\ closePending' = FALSE
         /\ exited' = TRUE
         /\ UNCHANGED <<tcpConnected, handshakeVars, reconnectAttempts,
                        isReconnecting, isWarmingUp, warmupTimer, retryVars,
                        stdout, countVars, connId, hs, everHandshake, owed,
                        codecVars, attemptPorts, uriVars>>

\* Mutant of cleanup: the pending reconnect timer is not cleared.
cleanupKeepsTimer ==
    IF ~shouldKeepRunning
    THEN UNCHANGED vars
    ELSE /\ shouldKeepRunning' = FALSE
         /\ sock' = "null"
         /\ closePending' = FALSE
         /\ exited' = TRUE
         /\ UNCHANGED <<tcpConnected, pendingMessages, handshakeVars, timerVars,
                        isWarmingUp, warmupTimer, retryVars, stdout, tcpOut,
                        countVars, connId, hs, everHandshake, owed, codecVars,
                   attemptPorts, uriVars>>

(***************************************************************************)
(* cleanup(reason): a signal, or stdin ending.                             *)
(***************************************************************************)
cleanup ==
    IF ~shouldKeepRunning
    THEN UNCHANGED vars
    ELSE /\ shouldKeepRunning' = FALSE
         /\ reconnectTimer' = "null"
         /\ sock' = "null"
         /\ closePending' = FALSE
         /\ exited' = TRUE
         /\ UNCHANGED <<tcpConnected, pendingMessages, handshakeVars,
                        reconnectAttempts, isReconnecting, isWarmingUp,
                        warmupTimer, retryVars, stdout, tcpOut, countVars, connId,
                        hs, everHandshake, owed, codecVars,
                   attemptPorts, uriVars>>

\* process.on('SIGINT' | 'SIGTERM' | 'SIGHUP').  A signal sent to a process
\* that has exited reaches nothing.
Shutdown ==
    IF exited THEN UNCHANGED vars ELSE cleanup

\* process.stdin.on('end' | 'close' | 'error')
StdinEnd ==
    /\ ~exited
    /\ cleanup

Next ==
    \/ StdinData
    \/ TcpData
    \/ ConnectSuccess
    \/ ConnectError
    \/ ConnectTimeout
    \/ TransportError
    \/ OnClose
    \/ InitialRetry
    \/ ReconnectTimerFires
    \/ WarmupElapsed
    \/ Shutdown
    \/ StdinEnd

Spec == Init /\ [][Next]_vars


(***************************************************************************)
(* Helpers of the properties.                                              *)
(***************************************************************************)
Contents(frames) == [i \in 1..Len(frames) |-> frames[i].content]

Suffix(seq, from) == SubSeq(seq, from + 1, Len(seq))

\* A JSON-RPC notification: a method and no id.
IsNotification(msg) == msg.json /\ msg.method # "" /\ msg.id = Undefined

\* The response to the request with this id.
IsResponseTo(msg, id) == msg.json /\ msg.id = id /\ msg.result

\* The least position of the response to `id` in `wire`, 0 when there is none.
FirstResponse(wire, id) ==
    IF \E i \in 1..Len(wire) : IsResponseTo(wire[i], id)
    THEN CHOOSE i \in 1..Len(wire) :
            /\ IsResponseTo(wire[i], id)
            /\ \A j \in 1..(i - 1) : ~IsResponseTo(wire[j], id)
    ELSE 0

NotNotification(msg) == ~IsNotification(msg)

\* The order in which the payloads of `wire` are due on stdout while the
\* response to `id` is awaited: what is no notification at once, the response
\* as soon as it comes, then the notifications that came before it, then
\* everything later as it comes.
Reordered(wire, id) ==
    LET k == FirstResponse(wire, id)
    IN  IF k = 0
        THEN SelectSeq(wire, NotNotification)
        ELSE SelectSeq(SubSeq(wire, 1, k - 1), NotNotification)
               \o <<wire[k]>>
               \o SelectSeq(SubSeq(wire, 1, k - 1), IsNotification)
               \o SubSeq(wire, k + 1, Len(wire))

(***************************************************************************)
(* C1: once an initialize request with id X is tracked, the notifications  *)
(* the peer sends before the response to X are withheld from stdout; the   *)
(* response is written first, then the withheld notifications in arrival   *)
(* order, and every later message passes straight through: whatever the    *)
(* peer sent since tracking began, stdout holds it in the reordered order. *)
(* For the wire order A, B, response(X), C that is response(X), A, B, C.   *)
(***************************************************************************)
C1_HandshakeReorder ==
    hs.on => Contents(Suffix(stdout, hs.mark)) = Reordered(hs.wire, hs.id)

\* The peer sent A, B, response(1), A after the tracked initialize request
\* and stdout received response(1), A, B, A.
C1_Witness ==
    /\ hs.on
    /\ hs.wire = <<NotifA, NotifB, InitResp, NotifA>>
    /\ Contents(Suffix(stdout, hs.mark)) = <<InitResp, NotifA, NotifB, NotifA>>

(***************************************************************************)
(* C2: whenever an initialize request is written to the transport, by      *)
(* whatever path (direct send or queue flush), tracking is active from     *)
(* that moment: awaitingInit is true and trackedId is the request's id.    *)
(***************************************************************************)
C2_TrackedWhenWritten ==
    [][\A i \in (Len(tcpOut) + 1)..Len(tcpOut') :
          IsInitializeRequest(tcpOut'[i].content)
            => /\ waitingForInitialize'
               /\ initializeRequestId' = tcpOut'[i].content.id]_vars

(***************************************************************************)
(* C3: the frames received from stdin before the first successful          *)
(* connection are all written to the transport, in arrival order, when     *)
(* that connection succeeds, however many attempts failed before it.       *)
(***************************************************************************)
C3_FirstConnectDeliversAll ==
    [][(connId = 0 /\ connId' = 1)
         => /\ Len(tcpOut') = nStdin
            /\ \A i \in 1..nStdin : tcpOut'[i].seq = i /\ tcpOut'[i].conn = 1]_vars

(***************************************************************************)
(* C4: whenever the connection becomes deliverable (connected and not      *)
(* warming up) the frames then in the staging queue are written to the     *)
(* transport in FIFO order, and a frame that arrives later never overtakes *)
(* a queued one: a direct write happens only with the queue empty, and on  *)
(* every connection the frames are written in their stdin arrival order.   *)
(***************************************************************************)
Deliverable == tcpConnected /\ ~isWarmingUp

C4_DrainOnDeliverable ==
    (~Deliverable /\ Deliverable')
      => /\ pendingMessages' = <<>>
         /\ Len(tcpOut') = Len(tcpOut) + Len(pendingMessages)
         /\ \A i \in 1..Len(pendingMessages) :
              /\ tcpOut'[Len(tcpOut) + i].seq = pendingMessages[i].seq
              /\ tcpOut'[Len(tcpOut) + i].conn = connId'

C4_DirectOnlyWhenDrained ==
    (Len(tcpOut') > Len(tcpOut) /\ tcpOut'[Len(tcpOut')].via = "direct")
      => pendingMessages = <<>> /\ pendingMessages' = <<>>

C4_ArrivalOrderPerConnection ==
    \A i, j \in 1..Len(tcpOut) :
        (i < j /\ tcpOut[i].conn = tcpOut[j].conn) => tcpOut[i].seq < tcpOut[j].seq

C4_NoOvertaking ==
    /\ []C4_ArrivalOrderPerConnection
    /\ [][C4_DrainOnDeliverable]_vars
    /\ [][C4_DirectOnlyWhenDrained]_vars

\* Two frames queued while disconnected were flushed when the connection
\* became deliverable, and a third one that arrived afterwards was sent
\* directly behind them on the same connection.
C4_Witness ==
    /\ Len(tcpOut) = 3
    /\ tcpOut[1].via = "flush" /\ tcpOut[2].via = "flush" /\ tcpOut[3].via = "direct"
    /\ tcpOut[1].conn = tcpOut[3].conn /\ tcpOut[2].conn = tcpOut[3].conn


(***************************************************************************)
(* C7: after a transport close followed by a reconnect, no frame that was  *)
(* in the staging queue at the moment the reconnect succeeded is written   *)
(* to the new connection: the queue is emptied and nothing is written.     *)
(***************************************************************************)
C7_ReconnectDiscardsQueue ==
    [][(connId >= 1 /\ connId' = connId + 1)
         => /\ pendingMessages' = <<>>
            /\ tcpOut' = tcpOut]_vars

(***************************************************************************)
(* C8: every successful reconnect produces exactly one restart             *)
(* notification on stdout if an initialization handshake had completed     *)
(* earlier in the process lifetime, and none otherwise: once the warm-up   *)
(* is over, stdout holds as many restart notifications as there were       *)
(* reconnects after a completed handshake.                                 *)
(***************************************************************************)
IsRestartNotice(frame) == frame.content = RestartNotice

C8_OneNoticePerReconnect ==
    ~warmupTimer => Len(SelectSeq(stdout, IsRestartNotice)) = owed

(***************************************************************************)
(* C9: shutdown takes effect once and is safe in every connection state:   *)
(* the first request cancels the pending reconnect timer, destroys the     *)
(* transport and terminates; afterwards no connection attempt is started,  *)
(* no frame is written to either side, and a later request changes         *)
(* nothing.                                                                *)
(***************************************************************************)
C9_ShutdownState ==
    ~shouldKeepRunning => exited /\ reconnectTimer # "pending" /\ sock = "null"

C9_NothingAfterShutdown == ~shouldKeepRunning => UNCHANGED vars

C9_ShutdownOnce ==
    /\ []C9_ShutdownState
    /\ [][C9_NothingAfterShutdown]_vars

\* Shut down while waiting to reconnect after an established connection was
\* lost, with frames written to both sides before.
C9_Witness ==
    /\ exited /\ ~shouldKeepRunning
    /\ isReconnecting /\ connId >= 1 /\ reconnectAttempts >= 1
    /\ Len(stdout) >= 1 /\ Len(tcpOut) >= 1

(***************************************************************************)
(* C10: every frame the bridge writes, to stdout or to the transport,      *)
(* carries a Content-Length equal to the UTF-8 byte length of the payload  *)
(* that follows the header.                                                *)
(***************************************************************************)
C10_LengthIsByteLength ==
    /\ \A i \in 1..Len(stdout) : stdout[i].len = ByteLength(stdout[i].content)
    /\ \A i \in 1..Len(tcpOut) : tcpOut[i].len = ByteLength(tcpOut[i].content)

\* Written so far: a restart notification, a relayed payload whose byte length
\* differs from the length its frame declared on the wire, a flushed and a
\* directly sent payload, one of them with more bytes than characters.
C10_Witness ==
    /\ \E i \in 1..Len(stdout) : IsRestartNotice(stdout[i])
    /\ \E i \in 1..Len(stdout) : stdout[i].len # WireLength(stdout[i].content)
    /\ \E i \in 1..Len(tcpOut) : tcpOut[i].via = "flush"
    /\ \E i \in 1..Len(tcpOut) :
          tcpOut[i].via = "direct" /\ tcpOut[i].len # CharLength(tcpOut[i].content)


(***************************************************************************)
(* The connection lifecycle alone, without traffic, and with the fairness  *)
(* the event loop gives: a timer that is due fires, the 'close' event of a *)
(* destroyed socket is delivered, and a connection attempt settles (it     *)
(* connects, fails, or runs into CONNECTION_TIMEOUT).                      *)
(***************************************************************************)
AttemptSettles == ConnectSuccess \/ RejectAttempt

CloseDelivered == closePending /\ OnClose

NextLife ==
    \/ ConnectSuccess
    \/ ConnectError
    \/ ConnectTimeout
    \/ TransportError
    \/ OnClose
    \/ InitialRetry
    \/ ReconnectTimerFires
    \/ WarmupElapsed
    \/ Shutdown

SpecLife ==
    /\ Init
    /\ [][NextLife]_vars
    /\ WF_vars(InitialRetry)
    /\ WF_vars(ReconnectTimerFires)
    /\ WF_vars(WarmupElapsed)
    /\ WF_vars(CloseDelivered)
    /\ WF_vars(AttemptSettles)

(***************************************************************************)
(* C6: with the retry cap disabled, whenever the transport closes or a     *)
(* connection attempt fails while the process is meant to keep running, a  *)
(* new attempt is eventually started (unless a shutdown request comes      *)
(* first); the relay is never meant to be running and disconnected with    *)
(* neither an attempt in flight nor a retry scheduled, and never gives up. *)
(***************************************************************************)
RetryScheduled ==
    reconnectTimer = "pending" \/ retryPhase = "delay" \/ closePending

C6_NeverIdle ==
    (shouldKeepRunning /\ sock # "open")
        => (~exited /\ (sock = "connecting" \/ RetryScheduled))

C6_Down == shouldKeepRunning /\ sock = "destroyed"

C6_AttemptOrStopped == sock = "connecting" \/ ~shouldKeepRunning

C6_AlwaysRetries ==
    /\ []C6_NeverIdle
    /\ (C6_Down ~> C6_AttemptOrStopped)

\* The five initial attempts failed, the reconnect timer took over, and its
\* attempt is in flight.
C6_Witness ==
    /\ ~exited /\ sock = "connecting"
    /\ retryPhase = "done" /\ retryI = MAX_INITIAL_RETRIES - 1
    /\ connId = 0 /\ reconnectTimer = "spent"


(***************************************************************************)
(* The frame codec at the byte level.  A buffer is a sequence of bytes; a  *)
(* byte is named by a string.  The header field name is written as one     *)
(* symbol ("Content-Length:"): extractMessages looks at a header only      *)
(* once the whole header block has been received, so where a chunk cuts    *)
(* the name cannot matter.  0xC3 0xA9 is the two-byte encoding of U+00E9.  *)
(* Positions are counted from 1, and 0 stands for indexOf's -1.            *)
(***************************************************************************)
MaxFrames == 2     \* frames the client writes to stdin in one run

HEADER_DELIMITER == <<"\r", "\n", "\r", "\n">>

\* The least position from i on at which pattern occurs in buffer.
RECURSIVE IndexFrom(_, _, _)
IndexFrom(buffer, pattern, i) ==
    IF i + Len(pattern) - 1 > Len(buffer) THEN 0
    ELSE IF \A j \in 1..Len(pattern) : buffer[i + j - 1] = pattern[j] THEN i
    ELSE IndexFrom(buffer, pattern, i + 1)

\* Buffer.prototype.indexOf(pattern)
IndexOf(buffer, pattern) == IndexFrom(buffer, pattern, 1)

\* Buffer.prototype.toString('utf8')
RECURSIVE Utf8Decode(_)
Utf8Decode(bytes) ==
    IF bytes = <<>> THEN <<>>
    ELSE IF Head(bytes) = "C3" /\ Len(bytes) > 1 /\ bytes[2] = "A9"
    THEN <<"U+00E9">> \o Utf8Decode(Tail(Tail(bytes)))
    ELSE IF Head(bytes) \in {"C3", "A9"}
    THEN <<"U+FFFD">> \o Utf8Decode(Tail(bytes))
    ELSE <<Head(bytes)>> \o Utf8Decode(Tail(bytes))

Digits == <<"0", "1", "2", "3", "4", "5", "6", "7", "8", "9">>

IsDigit(b) == \E i \in 1..Len(Digits) : Digits[i] = b

DigitValue(b) == (CHOOSE i \in 1..Len(Digits) : Digits[i] = b) - 1

\* \s
IsSpace(b) == b \in {" ", "\r", "\n", "\t"}

\* Content-Length: under the i flag
IsLengthName(b) == b \in {"Content-Length:", "content-length:"}

\* \s* from position i: the position of the first character that is no space.
RECURSIVE SkipSpace(_, _)
SkipSpace(header, i) ==
    IF i <= Len(header) /\ IsSpace(header[i]) THEN SkipSpace(header, i + 1) ELSE i

\* parseInt of (\d+) from position i
RECURSIVE ReadDigits(_, _, _)
ReadDigits(header, i, acc) ==
    IF i <= Len(header) /\ IsDigit(header[i])
    THEN ReadDigits(header, i + 1, 10 * acc + DigitValue(header[i]))
    ELSE acc

\* header.match(/Content-Length:\s*(\d+)/i): the number of the leftmost match,
\* Null when there is none.
HeaderMatch(header) ==
    LET MatchesAt(p) ==
            /\ IsLengthName(header[p])
            /\ SkipSpace(header, p + 1) <= Len(header)
            /\ IsDigit(header[SkipSpace(header, p + 1)])
        hits == {p \in 1..Len(header) : MatchesAt(p)}
    IN  IF hits = {} THEN Null
        ELSE LET p == CHOOSE q \in hits : \A r \in hits : q <= r
             IN  ReadDigits(header, SkipSpace(header, p + 1), 0)

\* Mutant of extractMessages: a header whose body has not arrived in full is
\* consumed, and only the bytes after it are kept.
RECURSIVE extractMessagesConsumesHeader(_, _)
extractMessagesConsumesHeader(remaining, calls) ==
    LET headerEnd == IndexOf(remaining, HEADER_DELIMITER)
        header == Utf8Decode(SubSeq(remaining, 1, headerEnd - 1))
        contentLength == HeaderMatch(header)
        messageStart == headerEnd + 4
        messageEnd == messageStart + contentLength
    IN  IF headerEnd = 0
        THEN [remaining |-> remaining, calls |-> calls]
        ELSE IF contentLength = Null
        THEN extractMessagesConsumesHeader(
                 SubSeq(remaining, messageStart, Len(remaining)), calls)
        ELSE IF Len(remaining) < messageEnd - 1
        THEN [remaining |-> SubSeq(remaining, messageStart, Len(remaining)),
              calls |-> calls]
        ELSE extractMessagesConsumesHeader(
                 SubSeq(remaining, messageEnd, Len(remaining)),
                 Append(calls,
                     [content |-> Utf8Decode(SubSeq(remaining, messageStart,
                                                    messageEnd - 1)),
                      contentLength |-> contentLength]))

\* extractMessages(buffer, onMessage): the bytes that remain and the calls of
\* onMessage, in order.
RECURSIVE extractMessages(_, _)
extractMessages(remaining, calls) ==
    LET headerEnd == IndexOf(remaining, HEADER_DELIMITER)
        header == Utf8Decode(SubSeq(remaining, 1, headerEnd - 1))
        contentLength == HeaderMatch(header)
        messageStart == headerEnd + 4
        messageEnd == messageStart + contentLength
    IN  IF headerEnd = 0
        THEN [remaining |-> remaining, calls |-> calls]
        ELSE IF contentLength = Null
        THEN extractMessages(SubSeq(remaining, messageStart, Len(remaining)), calls)
        ELSE IF Len(remaining) < messageEnd - 1
        THEN [remaining |-> remaining, calls |-> calls]
        ELSE extractMessages(
                 SubSeq(remaining, messageEnd, Len(remaining)),
                 Append(calls,
                     [content |-> Utf8Decode(SubSeq(remaining, messageStart,
                                                    messageEnd - 1)),
                      contentLength |-> contentLength]))

\* Mutant of Concat: the bytes kept from the previous 'data' event are dropped.
ConcatDropsRemainder(buffer, chunk) == chunk

\* Buffer.concat([stdinBuffer, chunk])
Concat(buffer, chunk) == buffer \o chunk


(***************************************************************************)
(* The valid frames a client may write: a header block in one of two       *)
(* styles, the delimiter, and a body of exactly the declared length.       *)
(***************************************************************************)
RECURSIVE DecimalDigits(_)
DecimalDigits(n) ==
    IF n < 10 THEN <<Digits[n + 1]>>
    ELSE DecimalDigits(n \div 10) \o <<Digits[(n % 10) + 1]>>

PlainHeader(n) == <<"Content-Length:", " ">> \o DecimalDigits(n)

TypedHeader(n) ==
    <<"Content-Type:", "x", "\r", "\n", "content-length:">> \o DecimalDigits(n)

AccentBody == <<"{", "C3", "A9", "}">>
BlankLineBody == <<"\r", "\n", "\r", "\n">>
EmptyBody == <<>>
FrameLikeBody == <<"Content-Length:", "1", "\r", "\n", "\r", "\n", "a">>
LongBody == <<"[", "1", ",", "2", ",", "3", ",", "4", "5", "]">>

Frame(header, body) == header \o HEADER_DELIMITER \o body

Frames ==
    {Frame(TypedHeader(Len(AccentBody)), AccentBody),
     Frame(PlainHeader(Len(BlankLineBody)), BlankLineBody),
     Frame(PlainHeader(Len(EmptyBody)), EmptyBody),
     Frame(PlainHeader(Len(FrameLikeBody)), FrameLikeBody),
     Frame(TypedHeader(Len(LongBody)), LongBody)}

RECURSIVE Flatten(_)
Flatten(frames) ==
    IF frames = <<>> THEN <<>> ELSE Head(frames) \o Flatten(Tail(frames))

FrameSequences ==
    UNION {{Flatten(f) : f \in [1..n -> Frames]} : n \in 1..MaxFrames}

(***************************************************************************)
(* process.stdin.on('data', chunk): the chunk is appended to stdinBuffer   *)
(* and extractMessages runs on the result.  The bridge has not connected   *)
(* yet, so the callback pushes each payload onto pendingMessages.          *)
(***************************************************************************)
StdinChunk ==
    /\ ~exited
    /\ MustQueue
    /\ \E k \in 1..(Len(stdinBytes) - stdinFed) :
         LET chunk == SubSeq(stdinBytes, stdinFed + 1, stdinFed + k)
         IN  \E r \in {extractMessages(Concat(stdinBuffer, chunk), <<>>)} :
             /\ stdinBuffer' = r.remaining
             /\ pendingMessages' = pendingMessages \o
                    [i \in 1..Len(r.calls) |->
                        [content |-> r.calls[i].content,
                         contentLength |-> r.calls[i].contentLength,
                         seq |-> nStdin + i]]
             /\ nStdin' = nStdin + Len(r.calls)
             /\ stdinFed' = stdinFed + k
             /\ byteAtATime' = (byteAtATime /\ k = 1)
    /\ UNCHANGED <<sock, closePending, tcpConnected, handshakeVars, timerVars,
                   isWarmingUp, shouldKeepRunning, exited, warmupTimer, retryVars,
                   stdout, tcpOut, nEvents, connId, hs, everHandshake, owed,
                   stdinBytes, attemptPorts, uriVars>>

InitCodec ==
    /\ BridgeInit
    /\ stdinBytes \in FrameSequences
    /\ stdinFed = 0
    /\ stdinBuffer = <<>>
    /\ byteAtATime = TRUE
    /\ uriInput = <<>>
    /\ uriResults = <<>>

NextCodec == StdinChunk

SpecCodec == InitCodec /\ [][NextCodec]_vars

\* The calls of the callback so far, as the staging queue recorded them.
CallbackCalls ==
    [i \in 1..Len(pendingMessages) |->
        [content |-> pendingMessages[i].content,
         contentLength |-> pendingMessages[i].contentLength]]

(***************************************************************************)
(* C5: for every valid sequence of frames and every way of cutting its     *)
(* bytes into consecutive chunks, one byte per chunk included, appending   *)
(* the chunks one at a time and running extractMessages after each append  *)
(* calls the callback with exactly the payloads, in the order, that one    *)
(* run of extractMessages on the whole concatenation calls it with.        *)
(***************************************************************************)
C5_ChunkingIrrelevant ==
    stdinFed = Len(stdinBytes)
        => /\ CallbackCalls = extractMessages(stdinBytes, <<>>).calls
           /\ stdinBuffer = extractMessages(stdinBytes, <<>>).remaining

\* A frame with a two-byte character and a frame whose body is a blank line
\* pair, delivered one byte per 'data' event, both decoded.
C5_Witness ==
    /\ stdinBytes = Frame(TypedHeader(4), AccentBody)
                      \o Frame(PlainHeader(4), BlankLineBody)
    /\ stdinFed = Len(stdinBytes)
    /\ byteAtATime
    /\ CallbackCalls = <<[content |-> <<"{", "U+00E9", "}">>, contentLength |-> 4],
                         [content |-> BlankLineBody, contentLength |-> 4]>>


(***************************************************************************)
(* Header blocks without a usable length field: an empty block, a block    *)
(* with another field only, and blocks whose Content-Length value is not   *)
(* a number.  Each is followed by the delimiter and by well-formed frames. *)
(***************************************************************************)
MalformedHeaders ==
    {<<>>,
     <<"Content-Type:", "x">>,
     <<"Content-Length:", " ", "a">>,
     <<"Content-Length:", " ", "-", "1">>,
     <<"Content-Length:", " ", "1", "a">>}

InitResync ==
    /\ BridgeInit
    /\ stdinBytes \in {h \o HEADER_DELIMITER \o f :
                          h \in MalformedHeaders, f \in FrameSequences}
    /\ stdinFed = 0
    /\ stdinBuffer = <<>>
    /\ byteAtATime = TRUE
    /\ uriInput = <<>>
    /\ uriResults = <<>>

NextResync == StdinChunk

SpecResync == InitResync /\ [][NextResync]_vars

\* What follows the first header block and its delimiter.
AfterFirstHeader(bytes) ==
    SubSeq(bytes, IndexOf(bytes, HEADER_DELIMITER) + Len(HEADER_DELIMITER),
           Len(bytes))

(***************************************************************************)
(* C11: a header block that ends with the delimiter and has no parseable   *)
(* Content-Length field (missing or non-numeric) is discarded with its     *)
(* delimiter, no callback is invoked for it, and every well-formed frame   *)
(* that follows is decoded: once all bytes are in, the callback has been   *)
(* called with exactly the payloads of the frames after that header.       *)
(***************************************************************************)
C11_ResyncAfterMalformedHeader ==
    stdinFed = Len(stdinBytes)
        => CallbackCalls = extractMessages(AfterFirstHeader(stdinBytes), <<>>).calls


(***************************************************************************)
(* C12: the URI transform is applied to every decoded payload in both      *)
(* directions before it is written: every frame written to the transport,  *)
(* a frame drained from the staging queue included, is what a direct send  *)
(* of the same payload writes, and every frame relayed from the transport  *)
(* to stdout is the transformed payload as well.                           *)
(***************************************************************************)
C12_TransformedBothWays ==
    /\ \A i \in 1..Len(tcpOut) :
          \E payload \in StdinMsgs :
             /\ payload.id = tcpOut[i].content.id
             /\ tcpOut[i].content = NormalizedContent(payload)
    /\ \A i \in 1..Len(stdout) :
          \/ IsRestartNotice(stdout[i])
          \/ \E payload \in PeerMsgs :
                stdout[i].content = NormalizedContent(payload)


(***************************************************************************)
(* A client that keeps writing while Godot is not running.  The limits are *)
(* the ones the feature list documents ("10MB buffer limit and 1000        *)
(* message queue limit"); the program text holds no such constant.         *)
(***************************************************************************)
QUEUE_LIMIT == 1000

BUFFER_LIMIT == 10 * 1024 * 1024

\* process.stdin.on('data') with one complete frame while the bridge is not
\* connected: the callback pushes the payload onto pendingMessages.
StdinWhileDown ==
    /\ ~exited
    /\ MustQueue
    /\ Len(pendingMessages) <= QUEUE_LIMIT
    /\ pendingMessages' = Append(pendingMessages,
           [content |-> HoverReq, contentLength |-> WireLength(HoverReq),
            seq |-> nStdin + 1])
    /\ nStdin' = nStdin + 1
    /\ UNCHANGED <<sock, closePending, tcpConnected, handshakeVars, timerVars,
                   isWarmingUp, shouldKeepRunning, exited, warmupTimer, retryVars,
                   stdout, tcpOut, nEvents, connId, hs, everHandshake, owed,
                   codecVars,
                   attemptPorts, uriVars>>

NextFlood == StdinWhileDown

SpecFlood == Init /\ [][NextFlood]_vars

(***************************************************************************)
(* C13: for any input sequence the staging queue never holds more than     *)
(* 1000 messages and the raw buffer never grows beyond 10 MB.              *)
(***************************************************************************)
C13_MemoryBounded ==
    /\ Len(pendingMessages) <= QUEUE_LIMIT
    /\ Len(stdinBuffer) <= BUFFER_LIMIT


(***************************************************************************)
(* C14: when GODOT_LSP_PORT is not set, a connection round tries the ports *)
(* 6005, 6007 and 6008 in that order, moving on to the next port when the  *)
(* attempt on the previous one fails; a reconnect after a transport close  *)
(* runs the same discovery: the i-th attempt since the last established    *)
(* connection is on the i-th port of the list (cyclically).                *)
(***************************************************************************)
DISCOVERY_PORTS == <<6005, 6007, 6008>>

C14_PortDiscovery ==
    \A i \in 1..Len(attemptPorts) :
        attemptPorts[i] = DISCOVERY_PORTS[((i - 1) % Len(DISCOVERY_PORTS)) + 1]


(***************************************************************************)
(* C15: when stdin ends, closes or errors, the bridge shuts down in        *)
(* whatever connection state it is in: the frames still in the staging     *)
(* queue are not drained, the transport is closed, no reconnect is         *)
(* scheduled afterwards, and the process terminates.                       *)
(***************************************************************************)
C15_StopsWithoutDraining ==
    (shouldKeepRunning /\ ~shouldKeepRunning')
      => /\ tcpOut' = tcpOut
         /\ pendingMessages' = pendingMessages
         /\ sock' = "null"
         /\ reconnectTimer' # "pending"
         /\ exited'

C15_NoReconnectAfterwards ==
    exited => (sock' = sock /\ reconnectTimer' = reconnectTimer /\ tcpOut' = tcpOut)

C15_StdinEndShutsDown ==
    /\ [][C15_StopsWithoutDraining]_vars
    /\ [][C15_NoReconnectAfterwards]_vars

\* Stopped during the warm-up after a reconnect, with a frame in the queue
\* that the warm-up flush would have written.
C15_Witness ==
    /\ exited /\ ~shouldKeepRunning
    /\ warmupTimer /\ sock = "null"
    /\ Len(pendingMessages) >= 1


(***************************************************************************)
(* The URI normalisation applied repeatedly to one string value, alone and *)
(* as the string value of a payload.                                       *)
(***************************************************************************)
MaxUriLen == 4     \* tokens in a string value

UriTokens == {"file://", "C:", "\\", "/", "a"}

UriStrings == UNION {[1..n -> UriTokens] : n \in 0..MaxUriLen}

InitUri ==
    /\ BridgeInit
    /\ stdinBytes = <<>>
    /\ stdinFed = 0
    /\ stdinBuffer = <<>>
    /\ byteAtATime = TRUE
    /\ uriInput \in UriStrings
    /\ uriResults = <<>>

\* One more application of normalizeFileUri and of normalizeUrisInObject to
\* what the previous application returned.
NormalizeAgain ==
    /\ Len(uriResults) < 2
    /\ LET prev == IF uriResults = <<>>
                   THEN [str |-> uriInput, obj |-> [InitReq EXCEPT !.uri = uriInput]]
                   ELSE uriResults[Len(uriResults)]
       IN  uriResults' = Append(uriResults,
               [str |-> normalizeFileUri(prev.str),
                obj |-> normalizeUrisInObject(prev.obj)])
    /\ UNCHANGED <<sock, closePending, tcpConnected, pendingMessages, handshakeVars,
                   timerVars, isWarmingUp, shouldKeepRunning, exited, warmupTimer,
                   retryVars, stdout, tcpOut, countVars, connId, hs, everHandshake,
                   owed, codecVars, attemptPorts, uriInput>>

NextUri == NormalizeAgain

SpecUri == InitUri /\ [][NextUri]_vars

(***************************************************************************)
(* C16: URI normalisation is idempotent: normalizeUrisInObject applied to  *)
(* an already normalised payload returns the same payload, and             *)
(* normalizeFileUri(normalizeFileUri(u)) = normalizeFileUri(u) for every   *)
(* string u.                                                               *)
(***************************************************************************)
C16_NormalizeIdempotent ==
    Len(uriResults) = 2 => uriResults[2] = uriResults[1]

\* file://C:\a was normalised to file:///C:/a and normalising that again
\* returned it unchanged.
C16_Witness ==
    /\ uriInput = WinUri
    /\ Len(uriResults) = 2
    /\ uriResults[1].str = <<"file://", "/", "C:", "/", "a">>
    /\ uriResults[1].obj.uri = <<"file://", "/", "C:", "/", "a">>
    /\ uriResults[2] = uriResults[1]


(***************************************************************************)
(* C17: a failed or timed-out connection attempt during startup leads only *)
(* to the bounded immediate retries; the slower reconnecting path (the     *)
(* reconnecting flag set, the long reconnect timer armed) is entered only  *)
(* after those retries are exhausted.                                      *)
(***************************************************************************)
C17_ReconnectOnlyAfterRetries ==
    retryPhase # "done" => (~isReconnecting /\ reconnectTimer # "pending")

(***************************************************************************)
(* C18: the staging queue is drained only while the transport is           *)
(* connected: no flush, initial or warm-up, runs when the connection is    *)
(* closed, also not when the transport closes during the warm-up delay and *)
(* the warm-up timer fires afterwards.                                     *)
(***************************************************************************)
C18_FlushOnlyWhileConnected ==
    [][(Len(tcpOut') > Len(tcpOut) /\ tcpOut'[Len(tcpOut')].via = "flush")
          => (tcpConnected' /\ sock' = "open")]_vars

(***************************************************************************)
(* C19: a frame decoded from stdin is written to the transport at once if  *)
(* and only if the connection is connected (the flag is set and the socket *)
(* is usable) and not warming up; in every other state it is appended to   *)
(* the staging queue and nothing is written; and stdin input is accepted   *)
(* in every state of the running bridge, during every delay.               *)
(***************************************************************************)
TransportUsable == tcpConnected /\ sock = "open"

C19_RouteOfFrame ==
    (nStdin' = nStdin + 1)
      => IF TransportUsable /\ ~isWarmingUp
         THEN /\ Len(tcpOut') = Len(tcpOut) + 1
              /\ tcpOut'[Len(tcpOut')].seq = nStdin'
              /\ tcpOut'[Len(tcpOut')].via = "direct"
              /\ pendingMessages' = pendingMessages
         ELSE /\ tcpOut' = tcpOut
              /\ Len(pendingMessages') = Len(pendingMessages) + 1
              /\ pendingMessages'[Len(pendingMessages')].seq = nStdin'
              /\ SubSeq(pendingMessages', 1, Len(pendingMessages)) = pendingMessages

C19_InputAccepted ==
    (~exited /\ nEvents < MaxEvents) => ENABLED StdinData

C19_WriteIffDeliverable ==
    /\ [][C19_RouteOfFrame]_vars
    /\ []C19_InputAccepted

\* One frame was written directly on the first connection; after a close and
\* a reconnect, two more arrived during the warm-up and wait in the queue.
C19_Witness ==
    /\ isWarmingUp /\ warmupTimer /\ sock = "open"
    /\ Len(pendingMessages) = 2
    /\ \E i \in 1..Len(tcpOut) : tcpOut[i].via = "direct"

(***************************************************************************)
(* C20: every frame placed in the reorder buffer is released to stdout     *)
(* exactly once: whenever held notifications leave the buffer they are     *)
(* written to stdout, in their order, whatever the peer sends next and     *)
(* whatever happens to the connection.                                     *)
(***************************************************************************)
C20_HeldAreReleased ==
    [][(bufferedNotifications # <<>> /\ bufferedNotifications' = <<>>)
          => /\ Len(stdout') >= Len(stdout) + Len(bufferedNotifications)
             /\ Contents(Suffix(stdout', Len(stdout') - Len(bufferedNotifications)))
                  = Contents(bufferedNotifications)]_vars

(***************************************************************************)
(* The relay from the transport to stdout on its own: the bridge connects, *)
(* the client writes requests and the peer sends every shape of payload    *)
(* handleGodotMessage distinguishes.                                       *)
(***************************************************************************)
OtherResp == Msg(TRUE, 2, "", TRUE, <<>>, 0, 0, 0)       \* the response to request 2
ServerReq == Msg(TRUE, 3, "workspace/configuration", FALSE, <<>>, 0, 0, 0)
ErrorResp == Msg(TRUE, 1, "", FALSE, <<>>, 0, 0, 0)      \* {id: 1, error: ...}
NotJson == Msg(FALSE, Undefined, "", FALSE, <<>>, 0, 0, 0)  \* JSON.parse throws
BareObject == Msg(TRUE, Undefined, "", FALSE, <<>>, 0, 0, 0) \* {"jsonrpc":"2.0"}

RelayMsgs == PeerMsgs \cup {OtherResp, ServerReq, ErrorResp, NotJson, BareObject}

\* tcpSocket.on('data') delivering the one payload content.
TcpDeliver(content) ==
    /\ handleGodotMessage(content, WireLength(content))
    /\ hs' = (IF hs.on THEN [hs EXCEPT !.wire = Append(@, content)] ELSE hs)
    /\ everHandshake' = (everHandshake \/ AnswersInitialize(content))
    /\ nEvents' = nEvents + 1
    /\ UNCHANGED <<sock, closePending, tcpConnected, pendingMessages, timerVars,
                   isWarmingUp, shouldKeepRunning, exited, warmupTimer, retryVars,
                   tcpOut, nStdin, connId, owed, codecVars,
                   attemptPorts, uriVars>>

TcpDataRelay ==
    /\ ~exited
    /\ sock = "open"
    /\ nEvents < MaxEvents
    /\ \E content \in RelayMsgs : TcpDeliver(content)

NextRelay ==
    \/ ConnectSuccess
    \/ StdinData
    \/ TcpDataRelay

SpecRelay == Init /\ [][NextRelay]_vars

\* The frame writeToStdout makes of a payload: the payload itself, with the
\* length of its bytes.
Relayed(content) == [len |-> ByteLength(content), content |-> content]

(***************************************************************************)
(* C21: while the handshake is awaited only notifications are withheld: a  *)
(* message from the peer that has an id and is not the awaited response (a *)
(* response to another id, a request of the server) and a payload that is  *)
(* not JSON are written to stdout at once and unchanged, never buffered    *)
(* and never dropped; when no handshake is awaited every message is.       *)
(***************************************************************************)
C21_Passes(content) ==
    \/ ~waitingForInitialize
    \/ ~content.json
    \/ content.id # Undefined /\ ~IsResponseTo(content, initializeRequestId)

C21_OnlyNotificationsWithheld ==
    [][\A content \in RelayMsgs :
          (sock = "open" /\ TcpDeliver(content) /\ C21_Passes(content))
             => /\ stdout' = Append(stdout, Relayed(content))
                /\ bufferedNotifications' = bufferedNotifications]_vars

\* A handshake is awaited, a notification is held, and since the handshake
\* began a response to another request, a server request and a payload that
\* is not JSON were relayed.
C21_Witness ==
    /\ waitingForInitialize /\ hs.on
    /\ bufferedNotifications # <<>>
    /\ \A content \in {OtherResp, ServerReq, NotJson} :
          \E i \in (hs.mark + 1)..Len(stdout) : stdout[i].content = content

(***************************************************************************)
(* C22 as stated: while the handshake is awaited, every parsed message     *)
(* from the peer that carries no id is appended to the held notifications  *)
(* instead of being relayed, whether or not it carries a method.           *)
(***************************************************************************)
C22_Held(content) ==
    /\ bufferedNotifications' = Append(bufferedNotifications,
           [content |-> content, contentLength |-> WireLength(content)])
    /\ stdout' = stdout

C22_EveryIdlessHeld ==
    [][\A content \in RelayMsgs :
          (sock = "open" /\ TcpDeliver(content) /\ waitingForInitialize
              /\ content.json /\ content.id = Undefined)
             => C22_Held(content)]_vars

(***************************************************************************)
(* C22 amended: while the handshake is awaited, every parsed message from  *)
(* the peer that carries a method and no id (a notification) is appended   *)
(* to the held notifications instead of being relayed; one that carries    *)
(* neither an id nor a method is relayed at once.                          *)
(***************************************************************************)
C22_NotificationsHeld ==
    [][\A content \in RelayMsgs :
          (sock = "open" /\ TcpDeliver(content) /\ waitingForInitialize
              /\ content.json /\ content.id = Undefined)
             => IF content.method # ""
                THEN C22_Held(content)
                ELSE /\ stdout' = Append(stdout, Relayed(content))
                     /\ bufferedNotifications' = bufferedNotifications]_vars

\* Two notifications are held, in the order they came, and nothing has been
\* relayed since the handshake began.
C22_Witness ==
    /\ waitingForInitialize /\ hs.on
    /\ Contents(bufferedNotifications) = <<NotifB, NotifA>>
    /\ Len(stdout) = hs.mark

(***************************************************************************)
(* C23: the handshake tracking token is live only while a handshake is     *)
(* outstanding: initializeRequestId is non-null only if                    *)
(* waitingForInitialize is true, so it is null again once the matching     *)
(* response has been relayed.                                              *)
(***************************************************************************)
C23_TokenOnlyWhileAwaited ==
    initializeRequestId # Null => waitingForInitialize

(***************************************************************************)
(* C24: on a reconnect the restart notification is written to stdout only  *)
(* after the warm-up delay has elapsed and the staging queue has been      *)
(* flushed to the transport, not at the moment the transport connects.     *)
(***************************************************************************)
C24_NoticeAfterWarmup ==
    [][(\E i \in (Len(stdout) + 1)..Len(stdout') : IsRestartNotice(stdout'[i]))
          => (~isWarmingUp' /\ ~warmupTimer' /\ pendingMessages' = <<>>)]_vars

(***************************************************************************)
(* C25: when the front of the buffer holds no complete frame (no header    *)
(* delimiter anywhere in it, or a valid header whose declared body length  *)
(* exceeds the bytes present), extractMessages calls the callback zero     *)
(* times for it and returns those bytes unchanged, header included,        *)
(* whatever the size of the buffer.                                        *)
(***************************************************************************)
C25_IncompleteFront(buffer) ==
    LET headerEnd == IndexOf(buffer, HEADER_DELIMITER)
    IN  \/ headerEnd = 0
        \/ \E n \in 0..Len(stdinBytes) :
              /\ SubSeq(buffer, 1, headerEnd - 1) \in {PlainHeader(n), TypedHeader(n)}
              /\ Len(buffer) - (headerEnd + 3) < n

C25_IncompleteFrameKept ==
    [][stdinFed' > stdinFed
          => LET buffer == stdinBuffer \o SubSeq(stdinBytes, stdinFed + 1, stdinFed')
             IN  C25_IncompleteFront(buffer)
                    => /\ stdinBuffer' = buffer
                       /\ nStdin' = nStdin
                       /\ pendingMessages' = pendingMessages]_vars

\* After one decoded frame the buffer keeps a whole header, its delimiter and
\* nine of the ten bytes of the body it declares.
C25_Witness ==
    /\ nStdin = 1
    /\ stdinBuffer = TypedHeader(Len(LongBody)) \o HEADER_DELIMITER
                        \o SubSeq(LongBody, 1, Len(LongBody) - 1)

====
